---- MODULE Spec2Model ----
(***************************************************************************)
(* A model of the metric query service of vibe-personal-dashboard-backend: *)
(* internal/service (MetricService, convertParamValue), internal/models    *)
(* and the Repository interface the service calls.                         *)
(*                                                                         *)
(* Strings that the code parses (parameter values) are sequences of        *)
(* one-character strings, so that parsing is computed, not assumed.        *)
(* Errors are sequences of layers, outermost first: fmt.Errorf with %w     *)
(* puts one layer in front of the wrapped error, fmt.Errorf without %w     *)
(* makes a one-layer error.                                                *)
(***************************************************************************)
EXTENDS Integers, Sequences, FiniteSets, TLC

\* ------------------------------------------------------------------ bounds

\* The largest number of names in one GetMetrics call.
MaxNames == 2

\* The width of the model's "64-bit" integers: strconv.ParseInt(s, 10, 64)
\* is modelled at this width (TLC's integers are 32 bits wide).
IntBits == 16

\* Largest number of rows in a query's result set.
MaxRows == 2

\* Largest number of definitions in a metric list.
MaxMetrics == 2

\* Largest length of an arbitrary parameter string given to
\* convertParamValue.
MaxLen == 3

\* Largest number of names of the GetMetrics call that runs against the
\* connection pool: more than the pool has connections.
MaxCallers == 27

\* Largest number of requests the HTTP server serves.
MaxRequests == 2

\* --------------------------------------------------------------- utilities

RECURSIVE Pow2(_)
Pow2(n) == IF n = 0 THEN 1 ELSE 2 * Pow2(n - 1)

IntMax == Pow2(IntBits - 1) - 1
IntMin == 0 - Pow2(IntBits - 1)

\* ------------------------------------------------- models: ParamType, Metric

ParamTypeString == "string"
ParamTypeInt == "int"
ParamTypeFloat == "float"

ParamDefinition(name, type, required) ==
    [Name |-> name, Type |-> type, Required |-> required]

Metric(name, query, multiRow, params) ==
    [Name |-> name, Query |-> query, MultiRow |-> multiRow, Params |-> params]

\* --------------------------------------------------------- strconv parsing

Digits == {"0", "1", "2", "3", "4", "5", "6", "7", "8", "9"}

DigitVal(c) ==
    CASE c = "0" -> 0 [] c = "1" -> 1 [] c = "2" -> 2 [] c = "3" -> 3
      [] c = "4" -> 4 [] c = "5" -> 5 [] c = "6" -> 6 [] c = "7" -> 7
      [] c = "8" -> 8 [] c = "9" -> 9

AllDigits(s) == \A k \in 1..Len(s) : s[k] \in Digits

\* The value of a digit string, saturating just above the integer range so
\* that an over-long literal is seen as out of range and never wraps.
RECURSIVE DigitsValue(_)
DigitsValue(s) ==
    IF Len(s) = 0 THEN 0
    ELSE LET hi == DigitsValue(SubSeq(s, 1, Len(s) - 1))
             v == 10 * hi + DigitVal(s[Len(s)])
         IN IF hi > IntMax + 1 \/ v > IntMax + 1 THEN IntMax + 2 ELSE v

\* A parser that lets a value outside the range wrap around.
ParseInt_Wrapping(s) ==
    IF Len(s) = 0 THEN [ok |-> FALSE, err |-> "ErrSyntax"]
    ELSE LET signed == s[1] \in {"+", "-"}
             neg == s[1] = "-"
             body == IF signed THEN Tail(s) ELSE s
         IN IF Len(body) = 0 \/ ~AllDigits(body)
            THEN [ok |-> FALSE, err |-> "ErrSyntax"]
            ELSE LET un == DigitsValue(body)
                     v == IF neg THEN 0 - un ELSE un
                 IN [ok |-> TRUE, val |-> ((v - IntMin) % Pow2(IntBits)) + IntMin]

\* strconv.ParseInt(s, 10, 64): an optional sign, then one or more decimal
\* digits; ErrSyntax otherwise, ErrRange outside [IntMin, IntMax].
ParseInt(s) ==
    IF Len(s) = 0 THEN [ok |-> FALSE, err |-> "ErrSyntax"]
    ELSE LET signed == s[1] \in {"+", "-"}
             neg == s[1] = "-"
             body == IF signed THEN Tail(s) ELSE s
         IN IF Len(body) = 0 \/ ~AllDigits(body)
            THEN [ok |-> FALSE, err |-> "ErrSyntax"]
            ELSE LET un == DigitsValue(body)
                 IN IF ~neg /\ un > IntMax THEN [ok |-> FALSE, err |-> "ErrRange"]
                    ELSE IF neg /\ un > IntMax + 1 THEN [ok |-> FALSE, err |-> "ErrRange"]
                    ELSE [ok |-> TRUE, val |-> IF neg THEN 0 - un ELSE un]

\* A decimal float value: (-1)^neg * num / 10^scale, with no trailing zero
\* in the fraction.
RECURSIVE NormFloat(_, _, _)
NormFloat(neg, num, scale) ==
    IF scale > 0 /\ num % 10 = 0 THEN NormFloat(neg, num \div 10, scale - 1)
    ELSE [neg |-> neg, num |-> num, scale |-> scale]

DotsAt(s) == {k \in 1..Len(s) : s[k] = "."}

\* strconv.ParseFloat(s, 64) on strings over signs, digits, "." and letters
\* that start no special form (no "e", "p", "_", "inf", "nan", "0x"): an
\* optional sign, then digits with at most one ".", at least one digit.
ParseFloat(s) ==
    IF Len(s) = 0 THEN [ok |-> FALSE, err |-> "ErrSyntax"]
    ELSE LET signed == s[1] \in {"+", "-"}
             neg == s[1] = "-"
             body == IF signed THEN Tail(s) ELSE s
             dots == DotsAt(body)
             dot == IF dots = {} THEN Len(body) + 1 ELSE CHOOSE k \in dots : TRUE
             int == SubSeq(body, 1, dot - 1)
             frac == SubSeq(body, dot + 1, Len(body))
         IN IF Cardinality(dots) > 1 \/ ~AllDigits(int \o frac) \/ Len(int \o frac) = 0
            THEN [ok |-> FALSE, err |-> "ErrSyntax"]
            ELSE [ok |-> TRUE, val |-> NormFloat(neg, DigitsValue(int \o frac), Len(frac))]

\* ------------------------------------------------------ convertParamValue

\* The dynamic types an interface{} value holds here; values of different
\* types are records of different fields, hence different.
StringValue(s) == [string |-> s]
Int64Value(n) == [int64 |-> n]
Float64Value(f) == [float64 |-> f]

\* A conversion that passes every value through unparsed.
convertParamValue_Unchecked(value, paramType) ==
    [ok |-> TRUE, val |-> StringValue(value)]

\* convertParamValue(value, paramType): the typed value, or an error.
convertParamValue(value, paramType) ==
    CASE paramType = ParamTypeString ->
           [ok |-> TRUE, val |-> StringValue(value)]
      [] paramType = ParamTypeInt ->
           LET r == ParseInt(value)
           IN IF r.ok THEN [ok |-> TRUE, val |-> Int64Value(r.val)]
              ELSE [ok |-> FALSE,
                    err |-> <<[msg |-> "invalid integer value", value |-> value],
                              [msg |-> r.err]>>]
      [] paramType = ParamTypeFloat ->
           LET r == ParseFloat(value)
           IN IF r.ok THEN [ok |-> TRUE, val |-> Float64Value(r.val)]
              ELSE [ok |-> FALSE,
                    err |-> <<[msg |-> "invalid float value", value |-> value],
                              [msg |-> r.err]>>]
      [] OTHER ->
           [ok |-> FALSE, err |-> <<[msg |-> "unsupported parameter type"]>>]

\* ------------------------------------------------------------------ errors

NoError == <<>>

\* fmt.Errorf(msg + ": %w", err): one layer in front of err.
Wrap(layer, err) == <<layer>> \o err

\* ------------------------------------------------- the catalog and inputs

\* The metric list the service is constructed with.
MetricsList ==
    << Metric("a", "qa", FALSE, <<>>),
       Metric("t", "qt", TRUE, <<ParamDefinition("v", ParamTypeString, FALSE),
                                 ParamDefinition("id", ParamTypeInt, FALSE)>>),
       Metric("p", "qp", FALSE, <<ParamDefinition("id", ParamTypeString, TRUE),
                                  ParamDefinition("v", ParamTypeFloat, FALSE)>>) >>

\* The names a request may ask for: the catalog's and one unknown name.
RequestNames == {"a", "t", "p", "zz"}

\* The keys and values of a request's params map.
ParamKeys == {"id", "v"}
InputValues == {<<>>, <<"7">>, <<"1", ".", "5">>}

NameLists == UNION {[1..n -> RequestNames] : n \in 0..MaxNames}
InputMaps == UNION {[ks -> InputValues] : ks \in SUBSET ParamKeys}

\* value, exists := params[key]: the zero value "" when the key is absent.
MapGet(m, key) == IF key \in DOMAIN m THEN m[key] ELSE <<>>

\* ------------------------------------------------------- NewMetricService

\* A map that keeps the first definition of a name.
NewMetricService_FirstWins(metricsList) ==
    [n \in {metricsList[k].Name : k \in 1..Len(metricsList)} |->
        LET first == CHOOSE k \in 1..Len(metricsList) :
                        /\ metricsList[k].Name = n
                        /\ \A j \in 1..(k - 1) : metricsList[j].Name # n
        IN metricsList[first]]

\* The map built by the loop metricsMap[m.Name] = m: a later definition
\* replaces an earlier one of the same name.
NewMetricService(metricsList) ==
    [n \in {metricsList[k].Name : k \in 1..Len(metricsList)} |->
        LET last == CHOOSE k \in 1..Len(metricsList) :
                       /\ metricsList[k].Name = n
                       /\ \A j \in (k + 1)..Len(metricsList) : metricsList[j].Name # n
        IN metricsList[last]]

\* ---------------------------------------------------------- prepareParams

\* A loop that fills args from the back.
StoreArg_Reversed(args, i, convertedValue) == <<convertedValue>> \o args

\* args[i] = convertedValue, args holding the entries before i.
StoreArg(args, i, convertedValue) == Append(args, convertedValue)

\* The loop of prepareParams from index i on, args holding the entries
\* converted so far.
RECURSIVE prepareParamsFrom(_, _, _, _)
prepareParamsFrom(metric, params, i, args) ==
    IF i > Len(metric.Params) THEN [ok |-> TRUE, args |-> args]
    ELSE LET paramDef == metric.Params[i]
             exists == paramDef.Name \in DOMAIN params
             value == MapGet(params, paramDef.Name)
         IN IF paramDef.Required /\ ~exists
            THEN [ok |-> FALSE,
                  err |-> <<[msg |-> "required parameter is missing",
                             metric |-> metric.Name, param |-> paramDef.Name]>>]
            ELSE LET c == convertParamValue(value, paramDef.Type)
                 IN IF ~c.ok
                    THEN [ok |-> FALSE,
                          err |-> Wrap([msg |-> "parameter", metric |-> metric.Name,
                                        param |-> paramDef.Name], c.err)]
                    ELSE prepareParamsFrom(metric, params, i + 1, StoreArg(args, i, c.val))

prepareParams(metric, params) ==
    IF Len(metric.Params) = 0 THEN [ok |-> TRUE, args |-> <<>>]
    ELSE prepareParamsFrom(metric, params, 1, <<>>)

\* ------------------------------------------------------------ the program

VARIABLES
    metrics,     \* ms.metrics: name -> Metric
    mainPc,      \* GetMetrics' caller: "idle", "waiting" (in eg.Wait), "returned"
    names,       \* the names argument of the GetMetrics call
    params,      \* the params argument, shared by all workers
    callerDone,  \* the caller's ctx is cancelled or timed out
    egCtxDone,   \* egCtx, the context derived by errgroup.WithContext, is cancelled
    egErr,       \* the errgroup's err, set once by the first failing goroutine
    workers,     \* per index i of names: the goroutine running GetMetric
    results,     \* the results slice of GetMetrics
    ret,         \* what GetMetrics returned
    order        \* the indices of the goroutines that finished, in that order

\* One GetMetric call followed through SQLiteRepository.
VARIABLES
    qPc,         \* "idle", "conn" (waiting for a pool connection), "exec"
                 \* (the query executes), "returned"
    qName,       \* the metric GetMetric was called for
    qCtxDone,    \* the ctx of the call is cancelled or timed out
    qResultSet,  \* the result set the query produced
    qRet,        \* what the repository method returned
    gmRet        \* what GetMetric returned

\* Loading a metric list and building the service's catalog from one.
VARIABLES
    catPc,       \* "idle", "loaded" (LoadConfig returned), "constructed"
                 \* (NewMetricService returned)
    catList,     \* the metric list decoded by LoadConfig or given to
                 \* NewMetricService
    loadRet,     \* what LoadConfig returned
    namesRet,    \* what GetMetricNames returned
    lookupRet    \* what the lookup ms.metrics[name] of GetMetric gave

\* The process started by main.
VARIABLES
    mainStep,    \* where main is: "start", "env", "config", "repo", "wired",
                 \* "waiting" (for a signal), "shutdown", "exited"
    mainMetrics, \* the metrics LoadConfig returned to main
    dbPinged,    \* NewSQLiteRepository opened and pinged the database
    svcBuilt,    \* NewMetricService was called
    srvState,    \* the http.Server: "none", "starting", "listening", "closed"
    inFlight,    \* the number of requests the server is handling
    served,      \* the number of requests the server has served
    repoClosed,  \* repo.Close was executed
    exitStatus   \* the exit status of the process, -1 while it runs

callVars == <<mainPc, names, params, callerDone, egCtxDone, egErr,
              workers, results, ret, order>>
serviceVars == <<metrics, callVars>>
repoVars == <<qPc, qName, qCtxDone, qResultSet, qRet, gmRet>>
catVars == <<catPc, catList, loadRet, namesRet, lookupRet>>
bootVars == <<mainStep, mainMetrics, dbPinged, svcBuilt, srvState, inFlight,
              served, repoClosed, exitStatus>>

\* One call of convertParamValue.
VARIABLES
    cvPc,        \* "idle", "returned"
    cvValue,     \* the value argument
    cvType,      \* the paramType argument
    cvRet        \* what convertParamValue returned

convVars == <<cvPc, cvValue, cvType, cvRet>>

\* The connection pool of the repository's sql.DB and the workers of one
\* GetMetrics call that use it: the number of open connections, of idle
\* ones and of pending connection requests, the number of names of the
\* call (0 before the call), and how many of its workers execute a query
\* and how many have finished.
VARIABLES numOpen, freeConn, connRequests, poolNames, wRunning, wDone
poolVars == <<numOpen, freeConn, connRequests, poolNames, wRunning, wDone>>

\* One service error handled by MetricsHandler: the kind of failure behind
\* it, the text of the error the service returned and the status written.
VARIABLES hPc, hKind, hErrMsg, hStatus
handlerVars == <<hPc, hKind, hErrMsg, hStatus>>

auxVars == <<convVars, poolVars, handlerVars>>

vars == <<serviceVars, repoVars, catVars, bootVars, auxVars>>

Nil == [nil |-> TRUE]

MetricResult(name, value) == [Name |-> name, Value |-> value]

\* The zero MetricResult of make([]models.MetricResult, len(names)).
ZeroResult == MetricResult("", Nil)

\* What a repository can answer to a successful query.
ScalarValues == {Int64Value(100), Nil}
RowSets == {<<>>, <<[count |-> Int64Value(45)]>>}

\* The errors a repository can answer with: a failure of its own, and the
\* failure of a query whose context is cancelled.
DbError == <<[msg |-> "query failed"], [msg |-> "driver"]>>
CanceledError == <<[msg |-> "query failed"], [msg |-> "context canceled"]>>

\* Whether the context a call was given is done. Contexts are named by
\* the variable the caller passed.
CtxDone(c) ==
    CASE c = "egCtx" -> egCtxDone
      [] c = "ctx" -> callerDone
      [] OTHER -> FALSE

\* A goroutine launched by eg.Go and not yet scheduled.
ReadyWorker ==
    [pc |-> "ready", calls |-> <<>>, repoErr |-> NoError, out |-> <<>>, err |-> NoError]

Indices == 1..Len(names)

\* A result set before any query has produced one.
NoResultSet == [columns |-> <<>>, rows |-> <<>>]

\* No GetMetric call is being followed through the repository.
RepoIdle ==
    /\ qPc = "idle"
    /\ qName = ""
    /\ qCtxDone = FALSE
    /\ qResultSet = NoResultSet
    /\ qRet = [value |-> Nil, err |-> NoError]
    /\ gmRet = [nilResults |-> TRUE, results |-> <<>>, err |-> NoError]

\* No metric list has been loaded or given to NewMetricService.
CatalogIdle ==
    /\ catPc = "idle"
    /\ catList = <<>>
    /\ loadRet = [metrics |-> <<>>, err |-> NoError]
    /\ namesRet = [called |-> FALSE, names |-> <<>>]
    /\ lookupRet = [called |-> FALSE]

\* convertParamValue has not been called.
ConvertIdle ==
    /\ cvPc = "idle"
    /\ cvValue = <<>>
    /\ cvType = ""
    /\ cvRet = [ok |-> FALSE]

\* The process has just entered main.
MainStart ==
    /\ mainStep = "start"
    /\ mainMetrics = <<>>
    /\ dbPinged = FALSE
    /\ svcBuilt = FALSE
    /\ srvState = "none"
    /\ inFlight = 0
    /\ served = 0
    /\ repoClosed = FALSE
    /\ exitStatus = -1

\* The pool after NewSQLiteRepository: its PingContext opened one
\* connection and put it back; no GetMetrics call is running.
PoolStart ==
    /\ numOpen = 1
    /\ freeConn = 1
    /\ connRequests = 0
    /\ poolNames = 0
    /\ wRunning = 0
    /\ wDone = 0

\* No service error has reached the handler.
HandlerIdle ==
    /\ hPc = "idle"
    /\ hKind = ""
    /\ hErrMsg = <<>>
    /\ hStatus = 0

Init ==
    /\ metrics = NewMetricService(MetricsList)
    /\ mainPc = "idle"
    /\ names = <<>>
    /\ params = <<>>
    /\ callerDone = FALSE
    /\ egCtxDone = FALSE
    /\ egErr = NoError
    /\ workers = <<>>
    /\ results = <<>>
    /\ ret = [returned |-> FALSE]
    /\ order = <<>>
    /\ RepoIdle
    /\ CatalogIdle
    /\ MainStart
    /\ ConvertIdle
    /\ PoolStart
    /\ HandlerIdle

\* A loop that skips a name it has already launched a goroutine for.
LaunchWorker_Dedup(ns, i) ==
    IF \E j \in 1..(i - 1) : ns[j] = ns[i]
    THEN [ReadyWorker EXCEPT !.pc = "done"]
    ELSE ReadyWorker

\* The goroutine the loop launches for names[i]: one per index, whatever
\* the name.
LaunchWorker(ns, i) == ReadyWorker

\* GetMetrics up to eg.Wait: results is allocated, egCtx derived from ctx
\* and one goroutine launched per name, in order.
GetMetrics(ns, ps) ==
    /\ mainPc = "idle"
    /\ mainPc' = "waiting"
    /\ names' = ns
    /\ params' = ps
    /\ results' = [i \in 1..Len(ns) |-> ZeroResult]
    /\ workers' = [i \in 1..Len(ns) |-> LaunchWorker(ns, i)]
    /\ egCtxDone' = callerDone
    /\ egErr' = NoError
    /\ UNCHANGED <<metrics, callerDone, ret, order, repoVars, catVars, bootVars, auxVars>>

\* The caller's context is cancelled or times out while GetMetrics runs;
\* the cancellation propagates to the derived egCtx.
CancelCaller ==
    /\ mainPc = "waiting"
    /\ ~callerDone
    /\ callerDone' = TRUE
    /\ egCtxDone' = TRUE
    /\ UNCHANGED <<metrics, mainPc, names, params, egErr, workers, results, ret, order,
                   repoVars, catVars, bootVars, auxVars>>

\* A closure that hands the caller's ctx to GetMetric.
WorkerCtx_Caller == "ctx"

\* The context GetMetrics' closure hands to GetMetric.
WorkerCtx == "egCtx"

\* A GetMetric that returns the repository's error as it is.
WrapFailed_Bare(metric, err) == err

\* The error GetMetric returns when the repository call failed.
WrapFailed(metric, err) == Wrap([msg |-> "failed", metric |-> metric.Name], err)

\* A group that keeps the last error instead of the first.
ErrOnce_Last(cur, err) == err

\* errOnce.Do(func() { g.err = err }): the group keeps its first error.
ErrOnce(cur, err) == IF cur = NoError THEN err ELSE cur

\* A closure that fills results in the order of completion.
ResultSlot_Completion(i) == Len(order) + 1

\* The slot of results the closure of index i writes: results[i].
ResultSlot(i) == i

\* The end of the closure given to eg.Go and of the goroutine around it:
\* on an error the errgroup keeps the first error and cancels egCtx
\* (errOnce.Do), otherwise the closure stores the result in its slot.
WorkerReturn(i, w) ==
    /\ workers' = [workers EXCEPT ![i] = [w EXCEPT !.pc = "done"]]
    /\ order' = Append(order, i)
    /\ IF w.err # NoError
       THEN /\ egErr' = ErrOnce(egErr, w.err)
            /\ egCtxDone' = TRUE
            /\ UNCHANGED results
       ELSE /\ results' = IF Len(w.out) > 0 THEN [results EXCEPT ![ResultSlot(i)] = w.out[1]]
                          ELSE results
            /\ UNCHANGED <<egErr, egCtxDone>>
    /\ UNCHANGED <<metrics, mainPc, names, params, callerDone, ret,
                   repoVars, catVars, bootVars, auxVars>>

\* A GetMetric that returns at once when its ctx is already done.
GetMetricChecksCtx_AtEntry(done) == done

\* Whether GetMetric looks at its ctx before it works: it never does, ctx
\* is only passed on to the repository.
GetMetricChecksCtx(done) == FALSE

\* The goroutine of index i is scheduled and its GetMetric call goes on to
\* the lookup of the name.
GetMetricStarts(i) ==
    /\ workers[i].pc = "ready"
    /\ ~GetMetricChecksCtx(CtxDone(WorkerCtx))

\* GetMetric: the name is not in ms.metrics.
GetMetricNotFound(i) ==
    /\ GetMetricStarts(i)
    /\ names[i] \notin DOMAIN metrics
    /\ WorkerReturn(i, [workers[i] EXCEPT
                          !.err = <<[msg |-> "not found", metric |-> names[i]]>>])

\* GetMetric: prepareParams fails.
GetMetricBadParams(i) ==
    /\ GetMetricStarts(i)
    /\ names[i] \in DOMAIN metrics
    /\ LET p == prepareParams(metrics[names[i]], params)
       IN /\ ~p.ok
          /\ WorkerReturn(i, [workers[i] EXCEPT !.err = p.err])

\* A GetMetric with the two branches exchanged.
RepoMethod_Swapped(metric) ==
    IF metric.MultiRow THEN "QuerySingleValue" ELSE "QueryMultiRow"

\* The repository method GetMetric calls for a metric.
RepoMethod(metric) == IF metric.MultiRow THEN "QueryMultiRow" ELSE "QuerySingleValue"

\* A prepareParams that stores the default "" under a declared key the
\* request did not send.
paramsAfterPrepare_FillDefaults(metric, ps) ==
    [k \in DOMAIN ps \cup {metric.Params[j].Name : j \in 1..Len(metric.Params)} |->
        MapGet(ps, k)]

\* The caller's params map after prepareParams has run on it: the loop reads
\* params[paramDef.Name] and assigns only to its local value and to args.
paramsAfterPrepare(metric, ps) == ps

\* GetMetric: lookup and prepareParams succeed and the repository is called.
GetMetricQuery(i) ==
    /\ GetMetricStarts(i)
    /\ names[i] \in DOMAIN metrics
    /\ LET metric == metrics[names[i]]
           p == prepareParams(metric, params)
       IN /\ p.ok
          /\ workers' = [workers EXCEPT ![i] =
                [@ EXCEPT !.pc = "inflight",
                          !.calls = Append(@, [method |-> RepoMethod(metric),
                                               query |-> metric.Query,
                                               args |-> p.args,
                                               ctx |-> WorkerCtx])]]
          /\ params' = paramsAfterPrepare(metric, params)
    /\ UNCHANGED <<metrics, mainPc, names, callerDone, egCtxDone, egErr,
                   results, ret, order, repoVars, catVars, bootVars, auxVars>>

\* The values a repository method can return.
RepoValues(method) == IF method = "QueryMultiRow" THEN RowSets ELSE ScalarValues

\* The repository call returns a value; GetMetric packages it.
RepoSucceeds(i) ==
    /\ workers[i].pc = "inflight"
    /\ LET w == workers[i]
           call == w.calls[Len(w.calls)]
       IN \E value \in RepoValues(call.method) :
            WorkerReturn(i, [w EXCEPT
               !.out = <<MetricResult(metrics[names[i]].Name, value)>>])

\* The error GetMetric returns for a repository error, on either branch.
GetMetricRepoFailed(i, w, err) ==
    WorkerReturn(i, [w EXCEPT !.repoErr = err,
                              !.err = WrapFailed(metrics[names[i]], err)])

\* The repository call fails on its own (driver or connection failure).
RepoFails(i) ==
    /\ workers[i].pc = "inflight"
    /\ GetMetricRepoFailed(i, workers[i], DbError)

\* The repository call is aborted because its context is cancelled.
RepoCanceled(i) ==
    /\ workers[i].pc = "inflight"
    /\ LET w == workers[i]
       IN /\ CtxDone(w.calls[Len(w.calls)].ctx)
          /\ GetMetricRepoFailed(i, w, CanceledError)

AllDone == \A i \in Indices : workers[i].pc = "done"

\* A Wait that also returns as soon as the group has an error.
WaitCanReturn_FailFast == AllDone \/ egErr # NoError

\* A Wait that returns when the first goroutine is done.
WaitCanReturn_FirstDone == Len(names) = 0 \/ \E i \in Indices : workers[i].pc = "done"

\* wg.Wait() in eg.Wait: blocks until every goroutine of the group is done.
WaitCanReturn == AllDone

\* A GetMetrics that returns a nil slice when there is nothing in it.
GetMetricsReturn_NilWhenEmpty(err) ==
    IF err # NoError \/ Len(results) = 0
    THEN [returned |-> TRUE, nilResults |-> TRUE, results |-> <<>>, err |-> err]
    ELSE [returned |-> TRUE, nilResults |-> FALSE, results |-> results, err |-> NoError]

\* A GetMetrics that hands out the results slice together with the error.
GetMetricsReturn_Partial(err) ==
    [returned |-> TRUE, nilResults |-> FALSE, results |-> results, err |-> err]

\* if err := eg.Wait(); err != nil { return nil, err }; return results, nil
GetMetricsReturn(err) ==
    IF err # NoError
    THEN [returned |-> TRUE, nilResults |-> TRUE, results |-> <<>>, err |-> err]
    ELSE [returned |-> TRUE, nilResults |-> FALSE, results |-> results, err |-> NoError]

\* eg.Wait returns once every goroutine is done, cancels egCtx and gives
\* the group's error; GetMetrics returns.
WaitReturns ==
    /\ mainPc = "waiting"
    /\ WaitCanReturn
    /\ mainPc' = "returned"
    /\ egCtxDone' = TRUE
    /\ ret' = GetMetricsReturn(egErr)
    /\ UNCHANGED <<metrics, names, params, callerDone, egErr, workers, results, order,
                   repoVars, catVars, bootVars, auxVars>>

Next ==
    \/ mainPc = "idle" /\ \E ns \in NameLists, ps \in InputMaps : GetMetrics(ns, ps)
    \/ CancelCaller
    \/ \E i \in Indices : GetMetricNotFound(i)
    \/ \E i \in Indices : GetMetricBadParams(i)
    \/ \E i \in Indices : GetMetricQuery(i)
    \/ \E i \in Indices : RepoSucceeds(i)
    \/ \E i \in Indices : RepoFails(i)
    \/ \E i \in Indices : RepoCanceled(i)
    \/ WaitReturns

Spec == Init /\ [][Next]_vars

\* ---------------------------------------------------- the SQLite repository

\* The result sets a query can produce: a list of column names, which SQL
\* allows to repeat, and rows holding one value per column. The values are
\* NULL, zero and the empty string.
ColumnLists == {<<"x">>, <<"x", "y">>, <<"y", "x">>, <<"x", "x">>}
SqlValues == {Nil, Int64Value(0), StringValue(<<>>)}

ResultSets ==
    UNION {[columns : {cols},
            rows : UNION {[1..r -> [1..Len(cols) -> SqlValues]] : r \in 0..MaxRows}] :
           cols \in ColumnLists}

\* The inputs of the GetMetric call followed through the repository: every
\* parameter of the catalog is present and convertible.
RepoParams == [k \in ParamKeys |-> IF k = "id" THEN <<"7">> ELSE <<"1", ".", "5">>]

\* A Scan that stores a zero for a NULL column.
ScanValue_ZeroForNull(v) == IF v = Nil THEN Int64Value(0) ELSE v

\* Scan(&value) with value an interface{}: the driver's value is stored as
\* it is, nil for NULL.
ScanValue(v) == v

\* A QuerySingleValue that answers a query without rows with a nil value.
QuerySingleValue_NilForNoRows(rs) ==
    IF Len(rs.rows) = 0 THEN [value |-> Nil, err |-> NoError]
    ELSE IF Len(rs.columns) # 1
         THEN [value |-> Nil,
               err |-> Wrap([msg |-> "query failed"],
                            <<[msg |-> "sql: expected destination arguments in Scan",
                               expected |-> Len(rs.columns), got |-> 1]>>)]
         ELSE [value |-> rs.rows[1][1], err |-> NoError]

\* QuerySingleValue on a query that produced rs: QueryRowContext(...).Scan
\* with the one destination &value. Row.Scan answers sql.ErrNoRows when
\* there is no row, and otherwise Rows.Scan fails unless the row has as
\* many columns as there are destinations.
QuerySingleValue(rs) ==
    IF Len(rs.rows) = 0 THEN [value |-> Nil, err |-> <<[msg |-> "no rows returned"]>>]
    ELSE IF Len(rs.columns) # 1
         THEN [value |-> Nil,
               err |-> Wrap([msg |-> "query failed"],
                            <<[msg |-> "sql: expected destination arguments in Scan",
                               expected |-> Len(rs.columns), got |-> 1]>>)]
         ELSE [value |-> ScanValue(rs.rows[1][1]), err |-> NoError]

\* A row map that holds the first column only.
RowMap_FirstColumn(columns, values) == [col \in {columns[1]} |-> values[1]]

\* A row map that leaves out the columns that are NULL.
RowMap_SkipNull(columns, values) ==
    [col \in {columns[i] : i \in {k \in 1..Len(columns) : values[k] # Nil}} |->
        values[CHOOSE i \in 1..Len(columns) :
                  /\ columns[i] = col
                  /\ values[i] # Nil
                  /\ \A j \in (i + 1)..Len(columns) :
                        columns[j] # col \/ values[j] = Nil]]

\* The map built by the loop row[col] = values[i] over the columns: a later
\* column replaces an earlier one of the same name.
RowMap(columns, values) ==
    [col \in {columns[i] : i \in 1..Len(columns)} |->
        values[CHOOSE i \in 1..Len(columns) :
                  /\ columns[i] = col
                  /\ \A j \in (i + 1)..Len(columns) : columns[j] # col]]

\* The rows QueryMultiRow returns, a []map[string]interface{}.
RowsValue(rows) == [rows |-> rows]

\* A QueryMultiRow that treats a query without rows as QuerySingleValue does.
QueryMultiRow_ErrorForNoRows(rs) ==
    IF Len(rs.rows) = 0
    THEN [value |-> RowsValue(<<>>), err |-> <<[msg |-> "no rows returned"]>>]
    ELSE [value |-> RowsValue([k \in 1..Len(rs.rows) |-> RowMap(rs.columns, rs.rows[k])]),
          err |-> NoError]

\* QueryMultiRow on a query that produced rs: one map per row, appended in
\* the order of the rows.
QueryMultiRow(rs) ==
    [value |-> RowsValue([k \in 1..Len(rs.rows) |-> RowMap(rs.columns, rs.rows[k])]),
     err |-> NoError]

\* What GetMetric returns for what the repository method returned.
GetMetricReturn(metric, r) ==
    IF r.err # NoError
    THEN [nilResults |-> TRUE, results |-> <<>>, err |-> WrapFailed(metric, r.err)]
    ELSE [nilResults |-> FALSE, results |-> <<MetricResult(metric.Name, r.value)>>,
          err |-> NoError]

\* The repository method returns r and GetMetric returns on it.
RepoReturn(r) ==
    /\ qPc' = "returned"
    /\ qRet' = r
    /\ gmRet' = GetMetricReturn(metrics[qName'], r)
    /\ UNCHANGED <<serviceVars, catVars, bootVars, auxVars>>

\* GetMetric(ctx, name, params) looks the metric up, prepares its arguments
\* and calls the repository method, which asks the pool for a connection.
\* DB.conn first checks ctx and returns ctx.Err() when it is already done.
RepoCall(name, done) ==
    /\ qPc = "idle"
    /\ name \in DOMAIN metrics
    /\ prepareParams(metrics[name], RepoParams).ok
    /\ qName' = name
    /\ qCtxDone' = done
    /\ UNCHANGED qResultSet
    /\ IF done
       THEN RepoReturn([value |-> Nil, err |-> CanceledError])
       ELSE /\ qPc' = "conn"
            /\ UNCHANGED <<qRet, gmRet, serviceVars, catVars, bootVars, auxVars>>

\* The caller's ctx is cancelled or its deadline passes while the call is
\* under way.
RepoCancel ==
    /\ qPc \in {"conn", "exec"}
    /\ ~qCtxDone
    /\ qCtxDone' = TRUE
    /\ UNCHANGED <<qPc, qName, qResultSet, qRet, gmRet, serviceVars, catVars, bootVars, auxVars>>

\* A pool that hands out connections without watching the caller's ctx.
ConnWaitSeesDone_Never(done) == FALSE

\* DB.conn selects on ctx.Done() while it waits for a connection.
ConnWaitSeesDone(done) == done

\* The pool hands the call a connection; when one is free is up to the
\* other users of the pool.
AcquireConn ==
    /\ qPc = "conn"
    /\ qPc' = "exec"
    /\ UNCHANGED <<qName, qCtxDone, qResultSet, qRet, gmRet, serviceVars, catVars,
                   bootVars, auxVars>>

\* The wait for a connection ends with ctx.Err().
AbortConn ==
    /\ qPc = "conn"
    /\ ConnWaitSeesDone(qCtxDone)
    /\ UNCHANGED <<qName, qCtxDone, qResultSet>>
    /\ RepoReturn([value |-> Nil, err |-> CanceledError])

\* The query runs to its end and produces a result set.
ExecFinish(rs) ==
    /\ qPc = "exec"
    /\ qResultSet' = rs
    /\ UNCHANGED <<qName, qCtxDone>>
    /\ RepoReturn(IF RepoMethod(metrics[qName]) = "QueryMultiRow"
                  THEN QueryMultiRow(rs) ELSE QuerySingleValue(rs))

\* The layers a repository method puts around an error of database/sql:
\* QuerySingleValue has one place where it wraps, QueryMultiRow wraps the
\* errors of QueryContext, of rows.Scan and of rows.Err.
ErrorLayers(method) ==
    IF method = "QueryMultiRow"
    THEN {[msg |-> "query failed"], [msg |-> "failed to scan row"],
          [msg |-> "error iterating rows"]}
    ELSE {[msg |-> "query failed"]}

\* The query fails in the driver.
ExecFails ==
    /\ qPc = "exec"
    /\ UNCHANGED <<qName, qCtxDone, qResultSet>>
    /\ \E layer \in ErrorLayers(RepoMethod(metrics[qName])) :
          RepoReturn([value |-> Nil, err |-> Wrap(layer, <<[msg |-> "driver"]>>)])

\* The running query is interrupted because ctx is done.
ExecAbort ==
    /\ qPc = "exec"
    /\ qCtxDone
    /\ UNCHANGED <<qName, qCtxDone, qResultSet>>
    /\ \E layer \in ErrorLayers(RepoMethod(metrics[qName])) :
          RepoReturn([value |-> Nil, err |-> Wrap(layer, <<[msg |-> "context canceled"]>>)])

NextRepo ==
    \/ \E name \in RequestNames, done \in BOOLEAN : RepoCall(name, done)
    \/ RepoCancel
    \/ AcquireConn
    \/ AbortConn
    \/ qPc = "exec" /\ \E rs \in ResultSets : ExecFinish(rs)
    \/ ExecFails
    \/ ExecAbort

\* The pool and the driver act on a cancelled ctx; nothing makes a
\* connection free or a query finish.
SpecRepo ==
    /\ Init
    /\ [][NextRepo]_vars
    /\ WF_vars(AbortConn)
    /\ WF_vars(ExecAbort)

\* ------------------------------------------------- the configuration loader

\* The definitions a metric list is made of: names and queries that may be
\* empty, and parameter lists that may hold a parameter of an unknown type.
CandidateMetrics ==
    {Metric(n, q, FALSE, ps) :
        n \in {"a", "b", ""}, q \in {"q1", ""},
        ps \in {<<>>, <<ParamDefinition("id", "bool", FALSE)>>}}

MetricLists == UNION {[1..n -> CandidateMetrics] : n \in 0..MaxMetrics}

\* The names a lookup may ask for.
LookupNames == {"a", "b", "", "zz"}

\* ParamType.IsValid
IsValid(pt) == pt \in {ParamTypeString, ParamTypeInt, ParamTypeFloat}

\* ParamDefinition.Validate
ParamDefinition_Validate(pd) ==
    IF pd.Name = "" THEN <<[msg |-> "parameter name cannot be empty"]>>
    ELSE IF ~IsValid(pd.Type)
         THEN <<[msg |-> "parameter type must be string, int, or float"]>>
         ELSE NoError

\* Metric.Validate: the error of the first invalid parameter, if any.
Metric_Validate(m) ==
    IF m.Name = "" THEN <<[msg |-> "metric name cannot be empty"]>>
    ELSE IF m.Query = "" THEN <<[msg |-> "metric query cannot be empty"]>>
    ELSE LET bad == {i \in 1..Len(m.Params) :
                        ParamDefinition_Validate(m.Params[i]) # NoError}
         IN IF bad = {} THEN NoError
            ELSE ParamDefinition_Validate(
                     m.Params[CHOOSE i \in bad : \A j \in bad : i <= j])

\* A duplicate check that never finds anything.
IsDuplicate_Never(seen, name) == FALSE

\* if names[metric.Name]: the name was marked by an earlier definition.
IsDuplicate(seen, name) == name \in seen

\* The loop of validateMetrics from index i on, seen holding the names
\* marked so far.
RECURSIVE validateMetricsFrom(_, _, _)
validateMetricsFrom(metricsList, i, seen) ==
    IF i > Len(metricsList) THEN NoError
    ELSE LET metric == metricsList[i]
         IN IF IsDuplicate(seen, metric.Name)
            THEN <<[msg |-> "duplicate metric name", metric |-> metric.Name]>>
            ELSE IF Metric_Validate(metric) # NoError
                 THEN Wrap([msg |-> "invalid metric", metric |-> metric.Name],
                           Metric_Validate(metric))
                 ELSE validateMetricsFrom(metricsList, i + 1, seen \cup {metric.Name})

validateMetrics(metricsList) ==
    IF Len(metricsList) = 0 THEN <<[msg |-> "no metrics defined in config"]>>
    ELSE validateMetricsFrom(metricsList, 1, {})

\* LoadConfig on a file that toml.DecodeFile decodes, or fails to decode,
\* into the list decoded.
LoadConfig(decodeOk, decoded) ==
    IF ~decodeOk
    THEN [metrics |-> <<>>,
          err |-> Wrap([msg |-> "failed to parse config file"], <<[msg |-> "toml"]>>)]
    ELSE IF validateMetrics(decoded) # NoError
         THEN [metrics |-> <<>>, err |-> validateMetrics(decoded)]
         ELSE [metrics |-> decoded, err |-> NoError]

\* A caller loads a configuration file.
CallLoadConfig(decodeOk, decoded) ==
    /\ catPc = "idle"
    /\ catPc' = "loaded"
    /\ catList' = decoded
    /\ loadRet' = LoadConfig(decodeOk, decoded)
    /\ UNCHANGED <<namesRet, lookupRet, serviceVars, repoVars, bootVars, auxVars>>

\* A caller builds a service, from the list it loaded or from a list of its
\* own.
CallNewMetricService(metricsList) ==
    /\ \/ catPc = "idle"
       \/ catPc = "loaded" /\ loadRet.err = NoError /\ metricsList = loadRet.metrics
    /\ catPc' = "constructed"
    /\ catList' = metricsList
    /\ metrics' = NewMetricService(metricsList)
    /\ UNCHANGED <<loadRet, namesRet, lookupRet, callVars, repoVars, bootVars, auxVars>>

\* The orders in which a range over a map with these keys can visit them.
MapOrders(keys) ==
    {o \in [1..Cardinality(keys) -> keys] :
        \A i, j \in 1..Cardinality(keys) : i # j => o[i] # o[j]}

\* GetMetricNames appends every key of ms.metrics in the order of the range.
GetMetricNames ==
    /\ catPc = "constructed"
    /\ ~namesRet.called
    /\ \E o \in MapOrders(DOMAIN metrics) :
          namesRet' = [called |-> TRUE, names |-> o]
    /\ UNCHANGED <<catPc, catList, loadRet, lookupRet, serviceVars, repoVars, bootVars, auxVars>>

\* metric, exists := ms.metrics[name], the first statement of GetMetric.
Lookup(name) ==
    /\ catPc = "constructed"
    /\ ~lookupRet.called
    /\ lookupRet' = [called |-> TRUE, name |-> name,
                     exists |-> name \in DOMAIN metrics,
                     metric |-> IF name \in DOMAIN metrics THEN metrics[name]
                                ELSE Metric("", "", FALSE, <<>>)]
    /\ UNCHANGED <<catPc, catList, loadRet, namesRet, serviceVars, repoVars, bootVars, auxVars>>

NextCatalog ==
    \/ catPc = "idle" /\ \E decodeOk \in BOOLEAN, decoded \in MetricLists :
                             CallLoadConfig(decodeOk, decoded)
    \/ catPc # "constructed" /\ \E metricsList \in MetricLists :
                                    CallNewMetricService(metricsList)
    \/ GetMetricNames
    \/ \E name \in LookupNames : Lookup(name)

SpecCatalog == Init /\ [][NextCatalog]_vars

\* ----------------------------------------------------------------- main

\* NewSQLiteRepository: sql.Open and PingContext must both succeed.
NewSQLiteRepository(openOk, pingOk) ==
    IF ~openOk
    THEN [ok |-> FALSE,
          err |-> Wrap([msg |-> "failed to open database"], <<[msg |-> "driver"]>>)]
    ELSE IF ~pingOk
         THEN [ok |-> FALSE,
               err |-> Wrap([msg |-> "failed to connect to database"],
                            <<[msg |-> "driver"]>>)]
         ELSE [ok |-> TRUE, err |-> NoError]

\* A main that logs a startup error and carries on.
FatalStartupError_Ignored(err) == FALSE

\* if err != nil { logger.Error(...); os.Exit(1) }
FatalStartupError(err) == err # NoError

\* os.Exit(status): the process ends at once, deferred calls do not run.
Exit(status) ==
    /\ mainStep' = "exited"
    /\ exitStatus' = status

\* setupLogging and loadEnvironment: a PORT that is not a number ends the
\* process.
LoadEnvironment(portOk) ==
    /\ mainStep = "start"
    /\ exitStatus = -1
    /\ IF portOk THEN mainStep' = "env" /\ UNCHANGED exitStatus ELSE Exit(1)
    /\ UNCHANGED <<mainMetrics, dbPinged, svcBuilt, srvState, inFlight, served, repoClosed,
                   serviceVars, repoVars, catVars, auxVars>>

\* metrics, err := config.LoadConfig("./config/metrics.toml")
MainLoadConfig(decodeOk, decoded) ==
    /\ mainStep = "env"
    /\ exitStatus = -1
    /\ LET r == LoadConfig(decodeOk, decoded)
       IN /\ mainMetrics' = r.metrics
          /\ IF FatalStartupError(r.err)
             THEN Exit(1)
             ELSE mainStep' = "config" /\ UNCHANGED exitStatus
    /\ UNCHANGED <<dbPinged, svcBuilt, srvState, inFlight, served, repoClosed,
                   serviceVars, repoVars, catVars, auxVars>>

\* repo, err := repository.NewSQLiteRepository(dbPath)
MainOpenRepository(openOk, pingOk) ==
    /\ mainStep = "config"
    /\ exitStatus = -1
    /\ LET r == NewSQLiteRepository(openOk, pingOk)
       IN /\ dbPinged' = r.ok
          /\ IF FatalStartupError(r.err)
             THEN Exit(1)
             ELSE mainStep' = "repo" /\ UNCHANGED exitStatus
    /\ UNCHANGED <<mainMetrics, svcBuilt, srvState, inFlight, served, repoClosed,
                   serviceVars, repoVars, catVars, auxVars>>

\* svc := service.NewMetricService(repo, metrics, logger), then the handler,
\* the router and the http.Server value.
MainWire ==
    /\ mainStep = "repo"
    /\ exitStatus = -1
    /\ mainStep' = "wired"
    /\ svcBuilt' = TRUE
    /\ metrics' = NewMetricService(mainMetrics)
    /\ UNCHANGED <<mainMetrics, dbPinged, srvState, inFlight, served, repoClosed, exitStatus,
                   callVars, repoVars, catVars, auxVars>>

\* go func() { srv.ListenAndServe() ... }(); main goes on to wait for a
\* signal.
MainStartServer ==
    /\ mainStep = "wired"
    /\ exitStatus = -1
    /\ mainStep' = "waiting"
    /\ srvState' = "starting"
    /\ UNCHANGED <<mainMetrics, dbPinged, svcBuilt, inFlight, served, repoClosed, exitStatus,
                   serviceVars, repoVars, catVars, auxVars>>

\* ListenAndServe binds the address and accepts connections.
ServerListens ==
    /\ srvState = "starting"
    /\ exitStatus = -1
    /\ srvState' = "listening"
    /\ UNCHANGED <<mainStep, mainMetrics, dbPinged, svcBuilt, inFlight, served, repoClosed,
                   exitStatus, serviceVars, repoVars, catVars, auxVars>>

\* ListenAndServe returns an error other than http.ErrServerClosed.
ServerFails ==
    /\ srvState \in {"starting", "listening"}
    /\ exitStatus = -1
    /\ Exit(1)
    /\ UNCHANGED <<mainMetrics, dbPinged, svcBuilt, srvState, inFlight, served, repoClosed,
                   serviceVars, repoVars, catVars, auxVars>>

\* The server accepts a request and hands it to the router; Shutdown closes
\* the listeners first.
RequestArrives ==
    /\ srvState = "listening"
    /\ mainStep = "waiting"
    /\ exitStatus = -1
    /\ inFlight + served < MaxRequests
    /\ inFlight' = inFlight + 1
    /\ UNCHANGED <<mainStep, mainMetrics, dbPinged, svcBuilt, srvState, served,
                   repoClosed, exitStatus, serviceVars, repoVars, catVars, auxVars>>

\* The handler of a request returns.
RequestServed ==
    /\ inFlight > 0
    /\ exitStatus = -1
    /\ inFlight' = inFlight - 1
    /\ served' = served + 1
    /\ UNCHANGED <<mainStep, mainMetrics, dbPinged, svcBuilt, srvState,
                   repoClosed, exitStatus, serviceVars, repoVars, catVars, auxVars>>

\* sig := <-sigChan: SIGINT or SIGTERM arrives.
MainSignal ==
    /\ mainStep = "waiting"
    /\ exitStatus = -1
    /\ mainStep' = "shutdown"
    /\ UNCHANGED <<mainMetrics, dbPinged, svcBuilt, srvState, inFlight, served, repoClosed,
                   exitStatus, serviceVars, repoVars, catVars, auxVars>>

\* srv.Shutdown(ctx) returns nil once no request is being handled; main
\* returns, the deferred repo.Close runs and the process ends with status 0.
MainShutdownReturns ==
    /\ mainStep = "shutdown"
    /\ exitStatus = -1
    /\ inFlight = 0
    /\ srvState' = "closed"
    /\ repoClosed' = TRUE
    /\ Exit(0)
    /\ UNCHANGED <<mainMetrics, dbPinged, svcBuilt, inFlight, served,
                   serviceVars, repoVars, catVars, auxVars>>

\* srv.Shutdown(ctx) returns an error, the 30 s timeout included.
MainShutdownFails ==
    /\ mainStep = "shutdown"
    /\ exitStatus = -1
    /\ Exit(1)
    /\ UNCHANGED <<mainMetrics, dbPinged, svcBuilt, srvState, inFlight, served, repoClosed,
                   serviceVars, repoVars, catVars, auxVars>>

NextMain ==
    \/ \E portOk \in BOOLEAN : LoadEnvironment(portOk)
    \/ mainStep = "env" /\ \E decodeOk \in BOOLEAN, decoded \in MetricLists :
                              MainLoadConfig(decodeOk, decoded)
    \/ \E openOk, pingOk \in BOOLEAN : MainOpenRepository(openOk, pingOk)
    \/ MainWire
    \/ MainStartServer
    \/ ServerListens
    \/ ServerFails
    \/ RequestArrives
    \/ RequestServed
    \/ MainSignal
    \/ MainShutdownReturns
    \/ MainShutdownFails

SpecMain == Init /\ [][NextMain]_vars

\* ---------------------------------------------- calls of convertParamValue

\* The characters of an arbitrary parameter string: signs, digits, a dot
\* and a letter.
ConvertChars == {"-", "+", "0", "9", ".", "x"}

DigitChar(d) ==
    CASE d = 0 -> "0" [] d = 1 -> "1" [] d = 2 -> "2" [] d = 3 -> "3"
      [] d = 4 -> "4" [] d = 5 -> "5" [] d = 6 -> "6" [] d = 7 -> "7"
      [] d = 8 -> "8" [] d = 9 -> "9"

\* The decimal digits of a natural number.
RECURSIVE Decimal(_)
Decimal(n) ==
    IF n < 10 THEN <<DigitChar(n)>>
    ELSE Append(Decimal(n \div 10), DigitChar(n % 10))

\* The literals around the ends of the integer range, a literal far outside
\* it, a literal with leading zeros and a decimal fraction.
BoundaryStrings ==
    {Decimal(IntMax), Decimal(IntMax + 1), <<"+">> \o Decimal(IntMax),
     <<"-">> \o Decimal(IntMax + 1), <<"-">> \o Decimal(IntMax + 2),
     <<"9", "9", "9", "9", "9", "9", "9">>, <<"0", "0", "0", "7">>,
     <<"3", ".", "1", "4">>}

\* The strings given to convertParamValue.
ConvertStrings ==
    UNION {[1..n -> ConvertChars] : n \in 0..MaxLen} \cup BoundaryStrings

\* The parameter types given to convertParamValue: the three of the models
\* package and one that is none of them.
ConvertTypes == {ParamTypeString, ParamTypeInt, ParamTypeFloat, "bool"}

\* A caller converts a parameter value.
CallConvertParamValue(value, paramType) ==
    /\ cvPc = "idle"
    /\ cvPc' = "returned"
    /\ cvValue' = value
    /\ cvType' = paramType
    /\ cvRet' = convertParamValue(value, paramType)
    /\ UNCHANGED <<serviceVars, repoVars, catVars, bootVars, poolVars, handlerVars>>

NextConvert ==
    cvPc = "idle" /\ \E value \in ConvertStrings, paramType \in ConvertTypes :
                        CallConvertParamValue(value, paramType)

SpecConvert == Init /\ [][NextConvert]_vars

\* ------------------------------------------------------ the connection pool

\* db.SetMaxOpenConns(25) and db.SetMaxIdleConns(5).
MaxOpenConns == 25
MaxIdleConns == 5

\* A pool without a limit on its open connections.
CanOpen_Unlimited(open) == TRUE

\* sql.DB.conn opens a new connection only below the limit.
CanOpen(open) == open < MaxOpenConns

\* A method that gives its connection back only when the query succeeded.
ReleasesConn_OnSuccess(outcome) == outcome = "ok"

\* Row.Scan closes the rows of QueryRowContext and QueryMultiRow defers
\* rows.Close(): the connection goes back to the pool on every return.
ReleasesConn(outcome) == TRUE

\* The outcomes of a query that terminates.
QueryOutcomes == {"ok", "error"}

\* The workers of the call that have not asked for a connection yet.
NotStarted == poolNames - connRequests - wRunning - wDone

\* GetMetrics is called with n names and launches one worker per name.
PoolGetMetrics(n) ==
    /\ poolNames = 0
    /\ poolNames' = n
    /\ UNCHANGED <<numOpen, freeConn, connRequests, wRunning, wDone>>
    /\ UNCHANGED <<serviceVars, repoVars, catVars, bootVars, convVars, handlerVars>>

\* A worker's query takes an idle connection.
ConnReuse ==
    /\ NotStarted > 0
    /\ freeConn > 0
    /\ freeConn' = freeConn - 1
    /\ wRunning' = wRunning + 1
    /\ UNCHANGED <<numOpen, connRequests, poolNames, wDone>>
    /\ UNCHANGED <<serviceVars, repoVars, catVars, bootVars, convVars, handlerVars>>

\* No connection is idle and the pool may open one.
ConnOpen ==
    /\ NotStarted > 0
    /\ freeConn = 0
    /\ CanOpen(numOpen)
    /\ numOpen' = numOpen + 1
    /\ wRunning' = wRunning + 1
    /\ UNCHANGED <<freeConn, connRequests, poolNames, wDone>>
    /\ UNCHANGED <<serviceVars, repoVars, catVars, bootVars, convVars, handlerVars>>

\* No connection is idle and the pool is at its limit: the worker's request
\* waits.
ConnWait ==
    /\ NotStarted > 0
    /\ freeConn = 0
    /\ ~CanOpen(numOpen)
    /\ connRequests' = connRequests + 1
    /\ UNCHANGED <<numOpen, freeConn, poolNames, wRunning, wDone>>
    /\ UNCHANGED <<serviceVars, repoVars, catVars, bootVars, convVars, handlerVars>>

\* A worker's query terminates and its repository method returns. A
\* released connection goes to a waiting request if there is one (whose
\* worker now executes), else to the idle list if that has room, else it
\* is closed.
QueryFinish(outcome) ==
    /\ wRunning > 0
    /\ wDone' = wDone + 1
    /\ IF ~ReleasesConn(outcome)
       THEN /\ wRunning' = wRunning - 1
            /\ UNCHANGED <<numOpen, freeConn, connRequests>>
       ELSE IF connRequests > 0
       THEN /\ connRequests' = connRequests - 1
            /\ UNCHANGED <<numOpen, freeConn, wRunning>>
       ELSE IF freeConn < MaxIdleConns
       THEN /\ freeConn' = freeConn + 1
            /\ wRunning' = wRunning - 1
            /\ UNCHANGED <<numOpen, connRequests>>
       ELSE /\ numOpen' = numOpen - 1
            /\ wRunning' = wRunning - 1
            /\ UNCHANGED <<freeConn, connRequests>>
    /\ UNCHANGED poolNames
    /\ UNCHANGED <<serviceVars, repoVars, catVars, bootVars, convVars, handlerVars>>

\* The context of a waiting request is cancelled: the worker's method
\* returns the context's error without a connection.
ConnWaitCanceled ==
    /\ connRequests > 0
    /\ connRequests' = connRequests - 1
    /\ wDone' = wDone + 1
    /\ UNCHANGED <<numOpen, freeConn, poolNames, wRunning>>
    /\ UNCHANGED <<serviceVars, repoVars, catVars, bootVars, convVars, handlerVars>>

NextPool ==
    \/ poolNames = 0 /\ \E n \in 1..MaxCallers : PoolGetMetrics(n)
    \/ ConnReuse
    \/ ConnOpen
    \/ ConnWait
    \/ \E outcome \in QueryOutcomes : QueryFinish(outcome)
    \/ ConnWaitCanceled

\* Every goroutine is scheduled and every query terminates.
SpecPool ==
    /\ Init
    /\ [][NextPool]_vars
    /\ WF_vars(ConnReuse)
    /\ WF_vars(ConnOpen)
    /\ WF_vars(ConnWait)
    /\ WF_vars(\E outcome \in QueryOutcomes : QueryFinish(outcome))

\* ------------------------------------------------------- the HTTP handler

\* Texts are sequences of fragments; a fragment that is a phrase the handler
\* searches for stands alone.
Quote(text) == <<"\"">> \o text \o <<"\"">>

\* strings.Contains(text, phrase).
Contains(text, phrase) ==
    \E k \in 0..(Len(text) - Len(phrase)) :
        SubSeq(text, k + 1, k + Len(phrase)) = phrase

\* The metric names of the catalog the handler's service was built from.
HandlerNames ==
    {<<"sales">>, <<"invalid", "_logins">>, <<"required", "_fields">>,
     <<"pages ", "not found">>}

\* The names of the parameters the metrics declare.
HandlerParamNames == {<<"id">>, <<"since">>, <<"required", "_by">>}

\* Query-string values that are not numbers.
HandlerValues == {<<"abc">>, <<"not found">>, <<"unknown metric">>}

\* Error texts of the driver and of a cancelled context.
DriverTexts ==
    {<<"disk I/O error">>, <<"context canceled">>,
     <<"no such column: ", "invalid", "_flag">>, <<"file ", "not found">>}

\* GetMetric: fmt.Errorf("metric %q not found", name).
NotFoundText(name) == <<"metric ">> \o Quote(name) \o <<" ", "not found">>

\* prepareParams: fmt.Errorf("metric %q: required parameter %q is missing").
MissingText(name, param) ==
    <<"metric ">> \o Quote(name) \o <<": ", "required", " parameter ">>
        \o Quote(param) \o <<" is missing">>

\* convertParamValue: fmt.Errorf("invalid integer value %q: %w", value, err)
\* and the same for float, around strconv's syntax error.
ConvertText(type, value) ==
    <<"invalid", " ", type, " value ">> \o Quote(value)
        \o <<": strconv.Parse: parsing ">> \o Quote(value) \o <<": ", "invalid", " syntax">>

\* prepareParams: fmt.Errorf("metric %q: parameter %q: %w").
ConversionText(name, param, type, value) ==
    <<"metric ">> \o Quote(name) \o <<": parameter ">> \o Quote(param)
        \o <<": ">> \o ConvertText(type, value)

\* GetMetric: fmt.Errorf("metric %q failed: %w", metric.Name, err).
FailedText(name, repoText) == <<"metric ">> \o Quote(name) \o <<" failed: ">> \o repoText

\* QuerySingleValue and QueryMultiRow: fmt.Errorf("query failed: %w", err).
QueryFailedText(driverText) == <<"query failed: ">> \o driverText

\* QuerySingleValue: fmt.Errorf("no rows returned").
NoRowsText == <<"no rows returned">>

StatusNotFound == 404
StatusBadRequest == 400
StatusInternalServerError == 500

\* The status handleServiceError writes for an error of text errMsg.
handleServiceError(errMsg) ==
    IF Contains(errMsg, <<"not found">>) \/ Contains(errMsg, <<"unknown metric">>)
    THEN StatusNotFound
    ELSE IF Contains(errMsg, <<"invalid">>) \/ Contains(errMsg, <<"required">>)
    THEN StatusBadRequest
    ELSE StatusInternalServerError

\* GetMetrics of the service returned an error of the given kind and text;
\* the handler passes it to handleServiceError.
HandleError(kind, errMsg) ==
    /\ hPc = "idle"
    /\ hPc' = "responded"
    /\ hKind' = kind
    /\ hErrMsg' = errMsg
    /\ hStatus' = handleServiceError(errMsg)
    /\ UNCHANGED <<serviceVars, repoVars, catVars, bootVars, convVars, poolVars>>

\* The requested metric is not in the catalog.
HandleUnknownMetric ==
    hPc = "idle" /\ \E name \in HandlerNames :
                       HandleError("not found", NotFoundText(name))

\* A required parameter is missing from the request.
HandleMissingParam ==
    hPc = "idle" /\ \E name \in HandlerNames, param \in HandlerParamNames :
                       HandleError("missing parameter", MissingText(name, param))

\* A parameter value cannot be converted to the declared type.
HandleConversionFailure ==
    hPc = "idle" /\ \E name \in HandlerNames, param \in HandlerParamNames,
                       type \in {"integer", "float"}, value \in HandlerValues :
                       HandleError("conversion",
                                   ConversionText(name, param, type, value))

\* The repository failed to execute the query.
HandleQueryFailure ==
    hPc = "idle" /\ \E name \in HandlerNames, text \in DriverTexts :
                       HandleError("execution",
                                   FailedText(name, QueryFailedText(text)))

\* A scalar query returned no rows.
HandleNoRows ==
    hPc = "idle" /\ \E name \in HandlerNames :
                       HandleError("execution", FailedText(name, NoRowsText))

NextHandler ==
    \/ HandleUnknownMetric
    \/ HandleMissingParam
    \/ HandleConversionFailure
    \/ HandleQueryFailure
    \/ HandleNoRows

SpecHandler == Init /\ [][NextHandler]_vars

\* ================================================ properties of the service

Succeeded(i) == workers[i].pc = "done" /\ workers[i].err = NoError
Failed(i) == workers[i].pc = "done" /\ workers[i].err # NoError

\* A resolution that failed on its own: unknown metric, bad parameter or a
\* repository failure other than the abort of a cancelled query.
FailedOnItsOwn(i) == Failed(i) /\ workers[i].repoErr # CanceledError

\* A resolution that failed only because its context was cancelled.
FailedByCancel(i) == Failed(i) /\ workers[i].repoErr = CanceledError

\* The resolution that failed first, by the order of completion.
FirstFailed ==
    CHOOSE i \in Indices :
        /\ Failed(i)
        /\ \A k \in 1..Len(order) :
             (order[k] = i) => \A j \in 1..(k - 1) : ~Failed(order[j])

\* C1: when every resolution of a GetMetrics call succeeds, the returned list
\* has one entry per name, and entry i has Name = names[i] and the value the
\* resolution of names[i] produced, whatever the order of completion.
C1_OrderPreserved ==
    (mainPc = "returned" /\ \A i \in Indices : workers[i].err = NoError) =>
        /\ ret.err = NoError
        /\ ~ret.nilResults
        /\ Len(ret.results) = Len(names)
        /\ \A i \in Indices :
             /\ ret.results[i].Name = names[i]
             /\ ret.results[i].Value = workers[i].out[1].Value

\* A successful call of two different metrics whose second resolution
\* finished first.
C1_Witness ==
    /\ mainPc = "returned"
    /\ ret.err = NoError
    /\ Len(names) = 2
    /\ names[1] # names[2]
    /\ order = <<2, 1>>
    /\ ret.results[1].Value # ret.results[2].Value

\* C2: GetMetrics returns either a complete list of len(names) results and a
\* nil error, or no list and a non-nil error; when a resolution failed it
\* returns no list, even if siblings had stored their results.
C2_AllOrNothing ==
    mainPc = "returned" =>
        /\ \/ /\ ret.err = NoError
              /\ ~ret.nilResults
              /\ Len(ret.results) = Len(names)
              /\ \A i \in Indices : ret.results[i] # ZeroResult
           \/ /\ ret.err # NoError
              /\ ret.nilResults
        /\ (\E i \in Indices : workers[i].err # NoError) =>
              (ret.err # NoError /\ ret.nilResults)

\* A call that returned an error although a sibling had stored its result.
C2_Witness ==
    /\ mainPc = "returned"
    /\ ret.err # NoError
    /\ ret.nilResults
    /\ \E i \in Indices : results[i] # ZeroResult

\* C3: when the caller's context is not cancelled and exactly one name fails
\* on its own, GetMetrics returns that name's error, never the error of a
\* sibling that failed only because the shared context was cancelled.
C3_OwnErrorReturned ==
    (mainPc = "returned" /\ ~callerDone) =>
        \A i \in Indices :
            (FailedOnItsOwn(i) /\ \A j \in Indices \ {i} : ~FailedOnItsOwn(j)) =>
                ret.err = workers[i].err

\* Such a call in which a sibling did fail by cancellation.
C3_Witness ==
    /\ mainPc = "returned"
    /\ ~callerDone
    /\ \E i \in Indices :
         /\ FailedOnItsOwn(i)
         /\ \E j \in Indices \ {i} : FailedByCancel(j)
         /\ \A j \in Indices \ {i} : ~FailedOnItsOwn(j)
         /\ ret.err = workers[i].err

C5_SharedCancellation ==
    /\ \A i \in Indices :
          workers[i].pc = "inflight" =>
             LET call == workers[i].calls[Len(workers[i].calls)]
             IN /\ \A j \in Indices :
                     workers[j].pc = "inflight" =>
                        workers[j].calls[Len(workers[j].calls)].ctx = call.ctx
                /\ ((\E j \in Indices : Failed(j)) \/ callerDone) => CtxDone(call.ctx)
    /\ (mainPc # "idle" /\ ((\E j \in Indices : Failed(j)) \/ callerDone)) => egCtxDone
    /\ egCtxDone => \/ \E j \in Indices : Failed(j)
                    \/ callerDone
                    \/ mainPc = "returned"

\* A query issued after a sibling's failure cancelled the shared context.
C5_Witness ==
    /\ mainPc = "waiting"
    /\ ~callerDone
    /\ Len(order) = 1
    /\ Failed(order[1])
    /\ \E i \in Indices :
         /\ workers[i].pc = "inflight"
         /\ CtxDone(workers[i].calls[1].ctx)

\* C6: a GetMetric call makes at most one repository call, and exactly one
\* when lookup and parameter preparation succeed: QueryMultiRow for a
\* MultiRow metric, QuerySingleValue otherwise, with the metric's query and
\* the prepared arguments; a repository error ends the call, with no retry.
C6_OneRepositoryCall ==
    \A i \in Indices :
        LET w == workers[i]
        IN /\ Len(w.calls) <= 1
           /\ (w.pc # "ready" /\ names[i] \in DOMAIN metrics
                 /\ prepareParams(metrics[names[i]], params).ok) =>
                 /\ Len(w.calls) = 1
                 /\ w.calls[1].method =
                       (IF metrics[names[i]].MultiRow THEN "QueryMultiRow"
                        ELSE "QuerySingleValue")
                 /\ w.calls[1].query = metrics[names[i]].Query
                 /\ w.calls[1].args = prepareParams(metrics[names[i]], params).args
           /\ w.repoErr # NoError => (w.pc = "done" /\ Len(w.calls) = 1)

\* A MultiRow and a scalar metric both queried, the first call having failed.
C6_Witness ==
    /\ Len(names) = 2
    /\ names[1] \in DOMAIN metrics
    /\ metrics[names[1]].MultiRow
    /\ workers[1].pc = "done"
    /\ workers[1].repoErr = DbError
    /\ names[2] \in DOMAIN metrics
    /\ ~metrics[names[2]].MultiRow
    /\ Len(workers[2].calls) = 1
    /\ Len(workers[2].calls[1].args) = 2

\* The three ways GetMetric fails before it reaches the repository.
UnknownMetric(i) == names[i] \notin DOMAIN metrics

MissingRequired(i) ==
    /\ names[i] \in DOMAIN metrics
    /\ \E k \in 1..Len(metrics[names[i]].Params) :
         /\ metrics[names[i]].Params[k].Required
         /\ metrics[names[i]].Params[k].Name \notin DOMAIN params

Unconvertible(i) ==
    /\ names[i] \in DOMAIN metrics
    /\ \E k \in 1..Len(metrics[names[i]].Params) :
         LET d == metrics[names[i]].Params[k]
         IN /\ d.Name \in DOMAIN params
            /\ \/ d.Type = ParamTypeInt /\ ~ParseInt(params[d.Name]).ok
               \/ d.Type = ParamTypeFloat /\ ~ParseFloat(params[d.Name]).ok

\* C7: GetMetric returns an error and no result, and makes no repository
\* call, when the name is not in the catalog, a required parameter is
\* absent or a supplied value cannot be converted to its declared type.
C7_FailsBeforeRepository ==
    \A i \in Indices :
        (workers[i].pc # "ready"
           /\ (UnknownMetric(i) \/ MissingRequired(i) \/ Unconvertible(i))) =>
            /\ workers[i].pc = "done"
            /\ workers[i].err # NoError
            /\ workers[i].out = <<>>
            /\ Len(workers[i].calls) = 0

\* A call with an unknown name and with a metric whose parameters are all
\* supplied, one of them unconvertible.
C7_Witness ==
    /\ Len(names) = 2
    /\ workers[1].pc = "done" /\ UnknownMetric(1)
    /\ workers[2].pc = "done" /\ Unconvertible(2) /\ ~MissingRequired(2)
    /\ \A k \in 1..Len(metrics[names[2]].Params) :
          metrics[names[2]].Params[k].Name \in DOMAIN params

\* A declared optional parameter of metric names[i] that the inputs lack.
MissingOptional(i) ==
    /\ names[i] \in DOMAIN metrics
    /\ \E k \in 1..Len(metrics[names[i]].Params) :
         /\ ~metrics[names[i]].Params[k].Required
         /\ metrics[names[i]].Params[k].Name \notin DOMAIN params

\* C8: when the inputs lack the key of a declared parameter with
\* required = false, of whatever type, GetMetric fails and performs no
\* repository query.
C8_MissingOptionalFails ==
    \A i \in Indices :
        (workers[i].pc # "ready" /\ MissingOptional(i)) =>
            /\ workers[i].pc = "done"
            /\ workers[i].err # NoError
            /\ Len(workers[i].calls) = 0

\* The inputs restricted to the keys a metric declares.
DeclaredOnly(metric, ps) ==
    [k \in DOMAIN ps \cap {metric.Params[j].Name : j \in 1..Len(metric.Params)} |-> ps[k]]

\* C9: the argument list passed to the repository has len(Params) entries,
\* entry k being the converted value of inputs[Params[k].Name] (the Go map
\* read, "" for an absent key), in declaration order; undeclared input
\* keys have no part in it.
C9_ArgsInDeclarationOrder ==
    \A i \in Indices :
        Len(workers[i].calls) > 0 =>
            LET metric == metrics[names[i]]
                args == workers[i].calls[1].args
            IN /\ Len(args) = Len(metric.Params)
               /\ \A k \in 1..Len(metric.Params) :
                    LET d == metric.Params[k]
                        raw == MapGet(params, d.Name)
                    IN args[k] =
                         CASE d.Type = ParamTypeString -> StringValue(raw)
                           [] d.Type = ParamTypeInt -> Int64Value(ParseInt(raw).val)
                           [] d.Type = ParamTypeFloat -> Float64Value(ParseFloat(raw).val)
               /\ args = prepareParams(metric, DeclaredOnly(metric, params)).args

\* A query with two arguments of different types, both keys supplied, and a
\* sibling metric for which one of the keys is undeclared.
C9_Witness ==
    /\ Len(names) = 2
    /\ Len(workers[1].calls) = 1
    /\ Len(workers[1].calls[1].args) = 2
    /\ DOMAIN workers[1].calls[1].args[1] # DOMAIN workers[1].calls[1].args[2]
    /\ DOMAIN params = ParamKeys
    /\ Len(workers[2].calls) = 1
    /\ Len(workers[2].calls[1].args) = 0

\* C10: when the repository call fails GetMetric returns no result and the
\* repository's error under exactly one added layer that names the metric;
\* GetMetrics hands the first error to its caller unchanged and never
\* turns a failure into a success.
C10_ErrorWrappedOnce ==
    /\ \A i \in Indices :
          workers[i].repoErr # NoError =>
             /\ workers[i].out = <<>>
             /\ Len(workers[i].err) = Len(workers[i].repoErr) + 1
             /\ Head(workers[i].err) = [msg |-> "failed", metric |-> names[i]]
             /\ Tail(workers[i].err) = workers[i].repoErr
    /\ (mainPc = "returned" /\ \E i \in Indices : workers[i].repoErr # NoError) =>
          /\ ret.err # NoError
          /\ ret.nilResults
          /\ ret.err = workers[FirstFailed].err

\* A call that returned the wrapped error of a failed repository call.
C10_Witness ==
    /\ mainPc = "returned"
    /\ \E i \in Indices :
         /\ workers[i].repoErr = DbError
         /\ ret.err = <<[msg |-> "failed", metric |-> names[i]]>> \o DbError

\* C11: for a name that occurs k times in names GetMetrics runs k
\* resolutions, each with its own repository query and none waiting for
\* another, and on success the list holds one entry per occurrence at its
\* position.
C11_DuplicatesResolvedIndependently ==
    /\ mainPc # "idle" => Len(workers) = Len(names)
    /\ \A i, j \in Indices :
         (i # j /\ names[i] = names[j]) =>
             /\ (workers[i].pc # "ready" /\ Len(workers[j].calls) > 0) =>
                   Len(workers[i].calls) = 1
             /\ (workers[i].pc = "ready" /\ workers[j].pc = "inflight") =>
                   ENABLED GetMetricQuery(i)
             /\ (mainPc = "returned" /\ ret.err = NoError) =>
                   /\ ret.results[i] = workers[i].out[1]
                   /\ ret.results[j] = workers[j].out[1]
                   /\ ret.results[i].Name = names[i]

\* The same metric asked for twice, both queries in flight at once.
C11_Witness ==
    /\ Len(names) = 2
    /\ names[1] = names[2]
    /\ workers[1].pc = "inflight"
    /\ workers[2].pc = "inflight"
    /\ workers[1].calls = workers[2].calls

\* C12: GetMetrics with an empty names list launches no worker, makes no
\* repository call and returns an empty, non-nil list and a nil error.
C12_EmptyNames ==
    Len(names) = 0 =>
        /\ workers = <<>>
        /\ order = <<>>
        /\ mainPc = "waiting" => ENABLED WaitReturns
        /\ mainPc = "returned" =>
              /\ ret.err = NoError
              /\ ~ret.nilResults
              /\ ret.results = <<>>

\* A call with no names that has returned.
C12_Witness ==
    /\ mainPc = "returned"
    /\ Len(names) = 0
    /\ ret.err = NoError

\* C21: once the service is constructed no step of GetMetrics, GetMetric or
\* prepareParams changes the metrics map or a definition in it, and once a
\* GetMetrics call is under way none changes the caller's params map.
C21_CatalogAndInputsReadOnly ==
    [][/\ metrics' = metrics
       /\ mainPc # "idle" => params' = params]_vars

\* A call that has returned after a worker prepared the arguments of a
\* metric with a declared parameter the request did not send.
C21_Witness ==
    /\ mainPc = "returned"
    /\ metrics = NewMetricService(MetricsList)
    /\ \E i \in Indices :
          /\ Len(workers[i].calls) = 1
          /\ \E j \in 1..Len(metrics[names[i]].Params) :
                metrics[names[i]].Params[j].Name \notin DOMAIN params

C28_NoContextCheckInGetMetric ==
    \A i \in Indices :
       /\ workers[i].pc = "ready" => GetMetricStarts(i)
       /\ \A c \in 1..Len(workers[i].calls) : workers[i].calls[c].ctx = "egCtx"

\* A sibling's failure has cancelled the shared context, and a worker that
\* has not started yet goes on to issue its repository call.
C28_Witness ==
    /\ mainPc = "waiting"
    /\ ~callerDone
    /\ egCtxDone
    /\ \E i, j \in Indices :
         /\ Failed(j)
         /\ workers[i].pc = "ready"
         /\ workers[i].calls = <<>>
         /\ ENABLED GetMetricQuery(i)

\* ============================================ properties of the repository

\* The GetMetric call followed through the repository has returned after
\* its query produced a result set.
Produced == qPc = "returned" /\ Len(qResultSet.columns) > 0

\* The call was for a MultiRow metric.
Tabular == qName \in DOMAIN metrics /\ metrics[qName].MultiRow

\* The call was for a scalar metric.
Scalar == qName \in DOMAIN metrics /\ ~metrics[qName].MultiRow

\* C13: when the query of a scalar metric matches no row, QuerySingleValue
\* returns an error and so does GetMetric, with no MetricResult.
C13_ScalarNoRowsFails ==
    (Produced /\ Scalar /\ Len(qResultSet.rows) = 0) =>
        /\ qRet.err # NoError
        /\ gmRet.err # NoError
        /\ gmRet.results = <<>>

\* A scalar metric whose query matched no row.
C13_Witness ==
    /\ Produced
    /\ Scalar
    /\ Len(qResultSet.rows) = 0
    /\ gmRet.err = WrapFailed(metrics[qName], <<[msg |-> "no rows returned"]>>)

\* C14: when a tabular query matches no row, QueryMultiRow returns a
\* sequence of length 0 and no error, and GetMetric succeeds with that
\* sequence as the value.
C14_TabularNoRowsSucceeds ==
    (Produced /\ Tabular /\ Len(qResultSet.rows) = 0) =>
        /\ qRet.err = NoError
        /\ Len(qRet.value.rows) = 0
        /\ gmRet.err = NoError
        /\ gmRet.results = <<MetricResult(qName, qRet.value)>>

\* A MultiRow metric whose query matched no row.
C14_Witness ==
    /\ Produced
    /\ Tabular
    /\ Len(qResultSet.rows) = 0
    /\ Len(gmRet.results) = 1

\* C15: for every result set with at least one row, QuerySingleValue
\* succeeds and returns the first column of the first row, whatever the
\* number of columns and rows.
C15_FirstColumnOfFirstRow ==
    (Produced /\ Scalar /\ Len(qResultSet.rows) >= 1) =>
        /\ qRet.err = NoError
        /\ qRet.value = qResultSet.rows[1][1]

\* Column i is the last column of the result set with its name.
LastOfName(i) ==
    \A j \in (i + 1)..Len(qResultSet.columns) :
        qResultSet.columns[j] # qResultSet.columns[i]

\* Row k of the value QueryMultiRow returned holds column i of row k of the
\* result set under the column's name: nil for NULL, the value otherwise.
HoldsColumn(k, i) ==
    /\ qResultSet.columns[i] \in DOMAIN qRet.value.rows[k]
    /\ qRet.value.rows[k][qResultSet.columns[i]] = qResultSet.rows[k][i]

\* C16 as stated: every column of every row, NULL or not, is in the row's
\* map under its name with its value.
C16_EveryColumnKept ==
    (Produced /\ Tabular) =>
        \A k \in 1..Len(qResultSet.rows), i \in 1..Len(qResultSet.columns) :
            HoldsColumn(k, i)

\* C16: every column that is the last of its name is in the row's map under
\* its name, with nil when it is NULL and with its value otherwise; the
\* result has one map per row.
C16_LastNamedColumnKept ==
    (Produced /\ Tabular) =>
        /\ qRet.err = NoError
        /\ Len(qRet.value.rows) = Len(qResultSet.rows)
        /\ \A k \in 1..Len(qResultSet.rows), i \in 1..Len(qResultSet.columns) :
              LastOfName(i) => HoldsColumn(k, i)

\* A row with a NULL column and a column holding the empty string.
C16_Witness ==
    /\ Produced
    /\ Tabular
    /\ qResultSet.columns = <<"x", "y">>
    /\ Len(qResultSet.rows) >= 1
    /\ qResultSet.rows[1] = <<Nil, StringValue(<<>>)>>
    /\ qRet.value.rows[1]["x"] = Nil
    /\ qRet.value.rows[1]["y"] = StringValue(<<>>)

\* The names of the columns of the result set.
ColumnNames == {qResultSet.columns[i] : i \in 1..Len(qResultSet.columns)}

\* C27 as stated: every row map has as many entries as the result set has
\* columns, columns that share a name included.
C27_SizeIsColumnCount ==
    (Produced /\ Tabular) =>
        \A k \in 1..Len(qRet.value.rows) :
            Cardinality(DOMAIN qRet.value.rows[k]) = Len(qResultSet.columns)

\* C27: every row map has exactly one entry per column name of the result
\* set, so its size is the number of distinct column names, which is the
\* number of columns when no two columns share a name.
C27_OneEntryPerColumnName ==
    (Produced /\ Tabular) =>
        /\ Len(qRet.value.rows) = Len(qResultSet.rows)
        /\ \A k \in 1..Len(qRet.value.rows) :
              /\ DOMAIN qRet.value.rows[k] = ColumnNames
              /\ Cardinality(ColumnNames) = Len(qResultSet.columns) =>
                    Cardinality(DOMAIN qRet.value.rows[k]) = Len(qResultSet.columns)

\* A row of two columns of the same name gives a map of one entry.
C27_Witness ==
    /\ Produced
    /\ Tabular
    /\ qResultSet.columns = <<"x", "x">>
    /\ Len(qRet.value.rows) >= 1
    /\ Cardinality(DOMAIN qRet.value.rows[1]) = 1

\* The error wraps the cancellation cause.
WrapsCanceled(err) == \E k \in 1..Len(err) : err[k] = [msg |-> "context canceled"]

\* C17 as stated: a call whose ctx was cancelled before it returned has
\* returned an error wrapping the cancellation cause.
C17_CancelledCallFails ==
    (qPc = "returned" /\ qCtxDone) => WrapsCanceled(qRet.err)

\* C17: a call whose ctx is done when it is made returns at once with an
\* error wrapping the cancellation cause, and a call whose ctx is cancelled
\* while it waits for a connection or while its query executes eventually
\* returns.
C17_CancelledCallReturns ==
    /\ [][(qPc = "idle" /\ qCtxDone') =>
             (qPc' = "returned" /\ WrapsCanceled(qRet'.err)
                /\ WrapsCanceled(gmRet'.err))]_vars
    /\ (qCtxDone /\ qPc \in {"conn", "exec"}) ~> (qPc = "returned")

\* A call that was cancelled on its way and returned the cancellation.
C17_Witness ==
    /\ qPc = "returned"
    /\ qCtxDone
    /\ WrapsCanceled(qRet.err)
    /\ WrapsCanceled(gmRet.err)

\* C30: when the query of a scalar metric gives a row whose single column
\* is NULL, QuerySingleValue returns nil without an error and GetMetric
\* returns one MetricResult with the null value; for a scalar query of one
\* column the only error of a query that produced its result is that of
\* the query without rows.
C30_ScalarNullIsValue ==
    (Produced /\ Scalar /\ Len(qResultSet.columns) = 1) =>
        /\ (Len(qResultSet.rows) > 0 /\ qResultSet.rows[1][1] = Nil) =>
              /\ qRet = [value |-> Nil, err |-> NoError]
              /\ gmRet = [nilResults |-> FALSE,
                          results |-> <<MetricResult(qName, Nil)>>,
                          err |-> NoError]
        /\ qRet.err # NoError <=> Len(qResultSet.rows) = 0

\* A scalar metric's query has given one row with a NULL column and the
\* metric's result carries the null value.
C30_Witness ==
    /\ Produced
    /\ Scalar
    /\ qResultSet = [columns |-> <<"x">>, rows |-> << <<Nil>> >>]
    /\ qRet.value = Nil
    /\ gmRet.err = NoError
    /\ gmRet.results[1].Value = Nil

\* ================================================ properties of the catalog

\* Some definition of the list has this name.
Occurs(name) == \E k \in 1..Len(catList) : catList[k].Name = name

\* Two definitions of the list have the same name.
SharedName ==
    \E i, j \in 1..Len(catList) : i # j /\ catList[i].Name = catList[j].Name

\* C18: LoadConfig returns an error and no metrics whenever the list is
\* empty or two of its definitions have the same name.
C18_EmptyOrDuplicateRejected ==
    (catPc = "loaded" /\ (Len(catList) = 0 \/ SharedName)) =>
        /\ loadRet.err # NoError
        /\ loadRet.metrics = <<>>

\* Two valid definitions of one name, rejected as a duplicate.
C18_Witness ==
    /\ catPc = "loaded"
    /\ Len(catList) = 2
    /\ catList[1].Name = catList[2].Name
    /\ Metric_Validate(catList[1]) = NoError
    /\ Metric_Validate(catList[2]) = NoError
    /\ loadRet.err = <<[msg |-> "duplicate metric name", metric |-> catList[1].Name]>>

\* C19 as stated: the definition a lookup finds is every definition the
\* list supplied under that name.
C19_ExactlyTheOneSupplied ==
    (catPc = "constructed" /\ lookupRet.called /\ lookupRet.exists) =>
        \A k \in 1..Len(catList) :
            catList[k].Name = lookupRet.name => lookupRet.metric = catList[k]

\* C19: a lookup finds a definition iff the name occurs in the list given
\* to NewMetricService, the definition found is the last one the list
\* supplied under that name, and GetMetricNames returns the supplied names,
\* each once.
C19_LookupFindsLastSupplied ==
    catPc = "constructed" =>
        /\ lookupRet.called =>
              /\ lookupRet.exists <=> Occurs(lookupRet.name)
              /\ lookupRet.exists =>
                    \E k \in 1..Len(catList) :
                       /\ lookupRet.metric = catList[k]
                       /\ catList[k].Name = lookupRet.name
                       /\ \A j \in (k + 1)..Len(catList) :
                             catList[j].Name # lookupRet.name
        /\ namesRet.called =>
              /\ {namesRet.names[i] : i \in 1..Len(namesRet.names)}
                   = {catList[k].Name : k \in 1..Len(catList)}
              /\ \A i, j \in 1..Len(namesRet.names) :
                    i # j => namesRet.names[i] # namesRet.names[j]

\* A service built from a list of two names, after a lookup that found the
\* first of them and a GetMetricNames.
C19_Witness ==
    /\ catPc = "constructed"
    /\ Len(catList) = 2
    /\ catList[1].Name # catList[2].Name
    /\ lookupRet.called
    /\ lookupRet.exists
    /\ lookupRet.metric = catList[1]
    /\ namesRet.called
    /\ Len(namesRet.names) = 2

\* ==================================================== properties of main

\* main holds a metric list that LoadConfig loaded and validated.
ConfigLoaded ==
    /\ Len(mainMetrics) > 0
    /\ validateMetrics(mainMetrics) = NoError

\* C20: the server is started and listens only after the configuration was
\* loaded and validated and the database was opened and pinged; main gets
\* past a step only if the step succeeded, and a process in which one of
\* the two failed has exited with status 1, has built no service and has
\* served no request.
C20_ListensOnlyAfterStartup ==
    /\ srvState # "none" => (ConfigLoaded /\ dbPinged /\ svcBuilt)
    /\ (inFlight > 0 \/ served > 0) =>
          (ConfigLoaded /\ dbPinged /\ svcBuilt /\ srvState # "none")
    /\ svcBuilt => (ConfigLoaded /\ dbPinged)
    /\ mainStep \in {"config", "repo", "wired", "waiting", "shutdown"} => ConfigLoaded
    /\ mainStep \in {"repo", "wired", "waiting", "shutdown"} => dbPinged
    /\ (mainStep = "exited" /\ ~(ConfigLoaded /\ dbPinged)) =>
          /\ exitStatus = 1
          /\ ~svcBuilt
          /\ srvState = "none"
          /\ inFlight = 0
          /\ served = 0

\* A server that listens and has served a request.
C20_Witness ==
    /\ srvState = "listening"
    /\ served > 0
    /\ ConfigLoaded
    /\ dbPinged
    /\ exitStatus = -1

\* C26 as stated: once main has opened the repository, the process ends
\* only after the repository's Close has run, whether it ends by a graceful
\* shutdown, by a listen failure of the server or by a failed or timed-out
\* shutdown.
C26_ClosedBeforeExit ==
    (mainStep = "exited" /\ dbPinged) => repoClosed

\* ====================================== properties of convertParamValue

\* The part of a string after its sign, if it has one.
Unsigned(s) == IF Len(s) > 0 /\ s[1] \in {"+", "-"} THEN Tail(s) ELSE s

\* s is a base-10 signed integer literal: an optional sign and one or more
\* decimal digits.
IsIntegerLiteral(s) ==
    /\ Len(Unsigned(s)) > 0
    /\ \A k \in 1..Len(Unsigned(s)) : Unsigned(s)[k] \in Digits

RECURSIVE Pow10(_)
Pow10(n) == IF n = 0 THEN 1 ELSE 10 * Pow10(n - 1)

\* The number a digit string denotes: the sum of digit * 10^position.
RECURSIVE PositionalSum(_, _)
PositionalSum(body, n) ==
    IF n = 0 THEN 0
    ELSE PositionalSum(body, n - 1) + DigitVal(body[n]) * Pow10(Len(body) - n)

\* The integer a base-10 signed integer literal denotes.
LiteralValue(s) ==
    IF Len(s) > 0 /\ s[1] = "-"
    THEN 0 - PositionalSum(Unsigned(s), Len(Unsigned(s)))
    ELSE PositionalSum(Unsigned(s), Len(Unsigned(s)))

\* C22: convertParamValue(s, int) succeeds exactly when s is a base-10
\* signed integer literal whose value lies in [IntMin, IntMax], and then
\* returns exactly that value; every other string, a decimal fraction, the
\* empty string and an out-of-range literal included, gives an error and
\* never a wrapped value.
C22_IntConversionExact ==
    (cvPc = "returned" /\ cvType = ParamTypeInt) =>
        /\ cvRet.ok <=> (/\ IsIntegerLiteral(cvValue)
                         /\ LiteralValue(cvValue) >= IntMin
                         /\ LiteralValue(cvValue) <= IntMax)
        /\ cvRet.ok => cvRet.val = Int64Value(LiteralValue(cvValue))

\* The smallest integer of the range is converted.
C22_Witness ==
    /\ cvPc = "returned"
    /\ cvType = ParamTypeInt
    /\ cvValue = <<"-">> \o Decimal(IntMax + 1)
    /\ cvRet = [ok |-> TRUE, val |-> Int64Value(IntMin)]

\* The literal one above the largest integer of the range is refused.
C22_WitnessOutOfRange ==
    /\ cvPc = "returned"
    /\ cvType = ParamTypeInt
    /\ cvValue = Decimal(IntMax + 1)
    /\ ~cvRet.ok

\* ========================================= properties of the connection pool

\* The connections that are checked out of the pool.
InUse == numOpen - freeConn

\* C23: the pool never has more than 25 open connections, so never more
\* than 25 queries execute at once, every further request waiting, and it
\* never keeps more than 5 idle connections.
C23_PoolLimits ==
    /\ numOpen <= MaxOpenConns
    /\ wRunning <= MaxOpenConns
    /\ freeConn <= MaxIdleConns
    /\ connRequests > 0 => (numOpen = MaxOpenConns /\ freeConn = 0)

\* 25 queries execute and a further worker waits for a connection.
C23_Witness ==
    /\ wRunning = MaxOpenConns
    /\ numOpen = MaxOpenConns
    /\ connRequests > 0

\* Every executing worker holds exactly one connection and a finished or
\* waiting worker holds none, and a waiting request always has an executing
\* worker whose return will serve it.
OneConnEach ==
    /\ InUse = wRunning
    /\ connRequests > 0 => wRunning > 0
    /\ NotStarted >= 0

\* C29: a GetMetrics call of any number of names, more than the pool's 25
\* connections included, has all its workers finished in the end when every
\* query terminates: each worker holds at most one connection and gives it
\* back before it finishes, so waiting workers are served.
C29_AllWorkersFinish ==
    /\ []OneConnEach
    /\ (poolNames > 0) ~> (wDone = poolNames)

\* A call of more names than the pool has connections is through and its
\* connections are back in the pool.
C29_Witness ==
    /\ poolNames > MaxOpenConns
    /\ wDone = poolNames
    /\ InUse = 0
    /\ freeConn = MaxIdleConns

\* ============================================ properties of the HTTP handler

\* The status the kind of a service error calls for.
KindStatus(kind) ==
    CASE kind = "not found" -> StatusNotFound
      [] kind = "missing parameter" -> StatusBadRequest
      [] kind = "conversion" -> StatusBadRequest
      [] kind = "execution" -> StatusInternalServerError

\* C24 as stated: the handler answers every service error with the status
\* of its kind, 404 for an unknown metric, 400 for a missing parameter or a
\* conversion failure and 500 for every failure of query execution, the
\* scalar no-rows case included, whatever the metric name and the underlying
\* error text.
C24_StatusByKind ==
    hPc = "responded" => hStatus = KindStatus(hKind)

====
